---- MODULE Spec2Model ----
(***************************************************************************)
(* Memoizing caches of rustc_utils: Cache (references into pinned boxes),  *)
(* CopyCache (copies), and the thread-local MIR_BODIES cache that bridges  *)
(* mir_borrowck (populate) and get_body_with_borrowck_facts (retrieve).    *)
(*                                                                         *)
(* Every get call is a frame on the calling thread's stack; a frame's pc   *)
(* is the source line it is about to execute.  A RefCell is its map plus   *)
(* its borrow flag (readers, writer).  The heap holds the pinned boxes.    *)
(***************************************************************************)
EXTENDS Integers, Sequences, FiniteSets, TLC

\* ---------------------------------------------------------------- bounds
NumKeys == 2
NumFns == 2
NumThreads == 2
MaxCalls == 3
MaxDepth == 2
MaxQueries == 2
MaxPairs == 3

Keys == 1..NumKeys
Fns == 1..NumFns
Threads == 1..NumThreads
\* Every call allocates at most one box, so an arena never needs more.
NumAddrs == IF MaxCalls > MaxQueries THEN MaxCalls ELSE MaxQueries
Addrs == 1..NumAddrs

\* Option::None of HashMap::get / an absent key.
None == 0
\* The closure |_| panic!(...) of get_body_with_borrowck_facts.
PanicFn == 0

\* compute(key) of a closure that returns: closure f applied to key k.
Apply(f, k) == 10 * f + k

Objs == {"Cache", "CopyCache", "MIR_BODIES"}

VARIABLES
  cells,     \* cells[obj][t]: the RefCell<HashMap> of instance obj owned by thread t
  heap,      \* heap[t][a]: the Box at address a of thread t's arena, or NoBox when free
  stack,     \* stack[t]: the frames of thread t, innermost last
  refs,      \* every reference a Cache::get has returned so far
  computed,  \* computed[obj][t][k]: how often a compute closure was invoked for k
  firstOut,  \* firstOut[obj][t][k]: value of the first get(k, f) that ran f and returned
  offered,   \* offered[obj][t][k]: f(k) of the latest get(k, f) that returned
  last,      \* last[t]: the last call, return or fault of thread t
  ncalls,    \* number of calls made so far by the callers of the caches
  nalloc,    \* nalloc[t]: number of boxes thread t has allocated so far
  brk        \* brk[t]: the highest address handed out so far in thread t's arena

vars == <<cells, heap, stack, refs, computed, firstOut, offered, last, ncalls, nalloc, brk>>

NoBox == [id |-> None, val |-> None]

\* RefCell::new(HashMap::default())
Default == [map |-> [k \in Keys |-> None], readers |-> 0, writer |-> FALSE]

NoEvent ==
  [kind |-> "none", op |-> "none", obj |-> "none", t |-> None, key |-> None,
   fn |-> None, addr |-> None, id |-> None, val |-> None, exp |-> None,
   reent |-> FALSE, invoked |-> FALSE, depth |-> 0, msg |-> "none",
   msgkey |-> None, present |-> FALSE]

Init ==
  /\ cells = [o \in Objs |-> [t \in Threads |-> Default]]
  /\ heap = [t \in Threads |-> [a \in Addrs |-> NoBox]]
  /\ stack = [t \in Threads |-> <<>>]
  /\ refs = {}
  /\ computed = [o \in Objs |-> [t \in Threads |-> [k \in Keys |-> 0]]]
  /\ firstOut = [o \in Objs |-> [t \in Threads |-> [k \in Keys |-> None]]]
  /\ offered = [o \in Objs |-> [t \in Threads |-> [k \in Keys |-> None]]]
  /\ last = [t \in Threads |-> NoEvent]
  /\ ncalls = 0
  /\ nalloc = [t \in Threads |-> 0]
  /\ brk = [t \in Threads |-> 0]

\* ------------------------------------------------------- RefCell, HashMap
\* RefCell::borrow succeeds unless a write view is active.
CanBorrow(c) == ~c.writer
\* Mutant: an unchecked cell, borrow_mut always succeeds.
CanBorrowMut_unchecked(c) == TRUE
\* RefCell::borrow_mut succeeds only when no view at all is active.
CanBorrowMut(c) == ~c.writer /\ c.readers = 0

\* Mutant: a lookup that never finds the key.
contains_key_never(map, k) == FALSE
\* HashMap::contains_key
contains_key(map, k) == map[k] # None
\* Mutant: an insert that evicts every other entry.
insert_evict(map, k, v) == [j \in DOMAIN map |-> IF j = k THEN v ELSE None]
\* Mutant: an insert that stores nothing.
insert_lost(map, k, v) == map
\* HashMap::insert: stores v under k, replacing what was there.
insert(map, k, v) == [map EXCEPT ![k] = v]
\* What HashMap::insert returns: the entry it replaced (None if there was none).
replaced(map, k) == map[k]
\* entry(k).or_insert_with(|| v): keeps an existing entry, else stores v.
or_insert_with(map, k, v) == IF contains_key(map, k) THEN map ELSE insert(map, k, v)

\* Dropping a Pin<Box<Out>>: its address becomes free.
DropBox(h, a) == IF a = None THEN h ELSE [h EXCEPT ![a] = NoBox]
\* The addresses an allocation by thread t may return: any address freed
\* earlier, or fresh memory.  A box is allocated, referenced and freed by the
\* thread that owns its cache, so each thread's boxes are kept in an arena of
\* its own; addresses never handed out are interchangeable, so fresh memory
\* is taken in address order.
FreeAddrs(t) == {a \in Addrs : heap[t][a] = NoBox /\ a <= brk[t] + 1}

\* ------------------------------------------------------------------ frames
Top(t) == stack[t][Len(stack[t])]
Running(t) == Len(stack[t]) > 0
Idle(t) == Len(stack[t]) = 0
\* Mutant: one instance shared by all threads (a static instead of a
\* thread_local): every thread reads the cell of thread 1.
Cell_shared(t) == cells[Top(t).obj][1]
\* The cell the innermost call of thread t works on: the instance of the
\* calling thread (MIR_BODIES.with hands out the caller's own cache).
Cell(t) == cells[Top(t).obj][t]
ReplaceTop(t, fr) == [stack EXCEPT ![t] = [@ EXCEPT ![Len(@)] = fr]]
Pop(t) == [stack EXCEPT ![t] = SubSeq(@, 1, Len(@) - 1)]

\* A call get(k, f) made while an enclosing get(k, ...) on the same instance
\* is still running its compute.
Reentrant(t, obj, k) ==
  \E i \in 1..Len(stack[t]) :
    stack[t][i].obj = obj /\ stack[t][i].key = k /\ stack[t][i].pc \in {"l18", "l53"}

\* What instance obj of thread t holds: per key the entry and, for a Cache,
\* the box it points to.
Snapshot(obj, t) ==
  [k \in Keys |->
     [entry |-> cells[obj][t].map[k],
      box |-> IF obj = "CopyCache" \/ cells[obj][t].map[k] = None
                THEN NoBox ELSE heap[t][cells[obj][t].map[k]]]]

NewFrame(t, op, obj, k, f) ==
  [op |-> op, obj |-> obj, key |-> k, fn |-> f,
   pc |-> IF obj = "CopyCache" THEN "l50" ELSE "l17",
   invoked |-> FALSE, cap |-> None,
   exp |-> firstOut[obj][t][k],
   reent |-> Reentrant(t, obj, k),
   snap |-> Snapshot(obj, t)]

Event(kind, t, fr, a, v, msg) ==
  [kind |-> kind, op |-> fr.op, obj |-> fr.obj, t |-> t, key |-> fr.key,
   fn |-> fr.fn, addr |-> a, id |-> IF a = None THEN None ELSE heap[t][a].id,
   val |-> v, exp |-> fr.exp, reent |-> fr.reent, invoked |-> fr.invoked,
   depth |-> Len(stack[t]), msg |-> msg,
   msgkey |-> IF kind = "fault" THEN fr.cap ELSE None,
   present |-> fr.snap[fr.key].entry # None]

\* The panic message of get_body_with_borrowck_facts; its {def_id:?} is the
\* msgkey of the fault.
PanicMsg == "mir_borrowck override should have stored body for item"

\* A frame that holds the RefMut of CopyCache::get (line 50 to the end of get).
HoldsMut(fr) == fr.obj = "CopyCache" /\ fr.pc \in {"l51", "l53"}

\* Mutant: the view of the faulting call is not released by the unwinding.
Unwind_leak(t, msg) ==
  /\ stack' = [stack EXCEPT ![t] = <<>>]
  /\ cells' = [cells EXCEPT ![Top(t).obj][t].writer = TRUE]
  /\ last' = [last EXCEPT ![t] = Event("fault", t, Top(t), None, None, msg)]
  /\ UNCHANGED <<heap, refs, computed, firstOut, offered, ncalls, nalloc, brk>>

\* A panic unwinds the whole stack of the thread: every RefMut held by an
\* unwound frame is dropped.
Unwind(t, msg) ==
  LET frames == {stack[t][i] : i \in 1..Len(stack[t])}
  IN /\ stack' = [stack EXCEPT ![t] = <<>>]
     /\ cells' = [o \in Objs |->
                    [cells[o] EXCEPT ![t].writer =
                       IF \E fr \in frames : fr.obj = o /\ HoldsMut(fr) THEN FALSE ELSE @]]
     /\ last' = [last EXCEPT ![t] = Event("fault", t, Top(t), None, None, msg)]
     /\ UNCHANGED <<heap, refs, computed, firstOut, offered, ncalls, nalloc, brk>>

\* -------------------------------------------------------------- Cache::get
\* A caller's cache.get(k, f) on a Cache it owns (as in test_cached), or a
\* compute closure calling back into the instance it is computing for.
Cache_get_call(t, k, f) ==
  /\ ncalls < MaxCalls
  /\ \/ Idle(t)
     \/ /\ Running(t) /\ Len(stack[t]) < MaxDepth
        /\ Top(t).obj = "Cache" /\ Top(t).pc = "l18"
  /\ stack' = [stack EXCEPT ![t] = Append(@, NewFrame(t, "get", "Cache", k, f))]
  /\ ncalls' = ncalls + 1
  /\ last' = [last EXCEPT ![t] = Event("call", t, NewFrame(t, "get", "Cache", k, f), None, None, "none")]
  /\ UNCHANGED <<cells, heap, refs, computed, firstOut, offered, nalloc, brk>>

\* Mutant: no presence check, every call computes and inserts.
Cache_get_l17_recompute(t) ==
  /\ Running(t) /\ Top(t).obj \in {"Cache", "MIR_BODIES"} /\ Top(t).pc = "l17"
  /\ stack' = ReplaceTop(t, [Top(t) EXCEPT !.pc = "l18", !.invoked = TRUE])
  /\ computed' = [computed EXCEPT ![Top(t).obj][t][Top(t).key] = @ + 1]
  /\ UNCHANGED <<cells, heap, refs, firstOut, offered, last, ncalls, nalloc, brk>>

\* Line 17: if !self.0.borrow().contains_key(&key).  The Ref is a temporary
\* of the condition and is dropped before the block is entered.
Cache_get_l17(t) ==
  /\ Running(t) /\ Top(t).obj \in {"Cache", "MIR_BODIES"} /\ Top(t).pc = "l17"
  /\ IF ~CanBorrow(Cell(t))
       THEN Unwind(t, "already mutably borrowed")
       ELSE IF contains_key(Cell(t).map, Top(t).key)
         THEN /\ stack' = ReplaceTop(t, [Top(t) EXCEPT !.pc = "l22"])
              /\ UNCHANGED <<cells, heap, refs, computed, firstOut, offered, last, ncalls, nalloc, brk>>
         ELSE /\ stack' = ReplaceTop(t, [Top(t) EXCEPT !.pc = "l18", !.invoked = TRUE])
              /\ computed' = [computed EXCEPT ![Top(t).obj][t][Top(t).key] = @ + 1]
              /\ UNCHANGED <<cells, heap, refs, firstOut, offered, last, ncalls, nalloc, brk>>

\* Lines 18-19: compute(key.clone()) returns, Box::pin moves the value into
\* a fresh allocation (the allocator may hand out any free address), and
\* self.0.borrow_mut().insert(key.clone(), out) stores the box; the entry
\* that insert replaces is returned and dropped at the end of the statement.
\* The closure of get_body_with_borrowck_facts panics instead of returning.
Cache_get_l18(t) ==
  /\ Running(t) /\ Top(t).obj \in {"Cache", "MIR_BODIES"} /\ Top(t).pc = "l18"
  /\ IF Top(t).fn = PanicFn
       THEN Unwind(t, PanicMsg)
       ELSE IF ~CanBorrowMut(Cell(t))
         THEN Unwind(t, "already borrowed")
         ELSE /\ \E a \in FreeAddrs(t) :
                   /\ cells' = [cells EXCEPT ![Top(t).obj][t].map = insert(@, Top(t).key, a)]
                   /\ heap' = [heap EXCEPT ![t] =
                                 DropBox([@ EXCEPT ![a] = [id |-> nalloc[t] + 1,
                                                           val |-> Apply(Top(t).fn, Top(t).key)]],
                                         replaced(Cell(t).map, Top(t).key))]
                   /\ brk' = [brk EXCEPT ![t] = IF a > @ THEN a ELSE @]
              /\ nalloc' = [nalloc EXCEPT ![t] = @ + 1]
              /\ stack' = ReplaceTop(t, [Top(t) EXCEPT !.pc = "l22"])
              /\ UNCHANGED <<refs, computed, firstOut, offered, last, ncalls>>

\* Lines 22-29: borrow, get(&key).unwrap(), and the reference to the boxed
\* value is returned with the lifetime of the cache.
Cache_get_l22(t) ==
  /\ Running(t) /\ Top(t).obj \in {"Cache", "MIR_BODIES"} /\ Top(t).pc = "l22"
  /\ IF ~CanBorrow(Cell(t))
       THEN Unwind(t, "already mutably borrowed")
       ELSE IF ~contains_key(Cell(t).map, Top(t).key)
         THEN Unwind(t, "called Option::unwrap() on a None value")
         ELSE LET a == Cell(t).map[Top(t).key]
                  fr == Top(t)
              IN /\ stack' = Pop(t)
                 /\ refs' = refs \cup {[obj |-> fr.obj, t |-> t, key |-> fr.key,
                                        addr |-> a, id |-> heap[t][a].id]}
                 /\ last' = [last EXCEPT ![t] = Event("ret", t, fr, a, heap[t][a].val, "none")]
                 /\ firstOut' = IF fr.invoked /\ firstOut[fr.obj][t][fr.key] = None
                                  THEN [firstOut EXCEPT ![fr.obj][t][fr.key] = Apply(fr.fn, fr.key)]
                                  ELSE firstOut
                 /\ offered' = IF fr.fn = PanicFn THEN offered
                                ELSE [offered EXCEPT ![fr.obj][t][fr.key] = Apply(fr.fn, fr.key)]
                 /\ UNCHANGED <<cells, heap, computed, ncalls, nalloc, brk>>


\* ---------------------------------------------------------- CopyCache::get
CopyCache_get_call(t, k, f) ==
  /\ ncalls < MaxCalls
  /\ \/ Idle(t)
     \/ /\ Running(t) /\ Len(stack[t]) < MaxDepth
        /\ Top(t).obj = "CopyCache" /\ Top(t).pc = "l53"
  /\ stack' = [stack EXCEPT ![t] = Append(@, NewFrame(t, "get", "CopyCache", k, f))]
  /\ ncalls' = ncalls + 1
  /\ last' = [last EXCEPT ![t] = Event("call", t, NewFrame(t, "get", "CopyCache", k, f), None, None, "none")]
  /\ UNCHANGED <<cells, heap, refs, computed, firstOut, offered, nalloc, brk>>

\* Mutant: a blocking cell, the call waits until the write view is free.
CopyCache_get_l50_blocking(t) ==
  /\ Running(t) /\ Top(t).obj = "CopyCache" /\ Top(t).pc = "l50"
  /\ CanBorrowMut(Cell(t))
  /\ cells' = [cells EXCEPT !["CopyCache"][t].writer = TRUE]
  /\ stack' = ReplaceTop(t, [Top(t) EXCEPT !.pc = "l51"])
  /\ UNCHANGED <<heap, refs, computed, firstOut, offered, last, ncalls, nalloc, brk>>

\* Mutant: the write view is taken without the cell's check.
CopyCache_get_l50_unchecked(t) ==
  /\ Running(t) /\ Top(t).obj = "CopyCache" /\ Top(t).pc = "l50"
  /\ cells' = [cells EXCEPT !["CopyCache"][t].writer = TRUE]
  /\ stack' = ReplaceTop(t, [Top(t) EXCEPT !.pc = "l51"])
  /\ UNCHANGED <<heap, refs, computed, firstOut, offered, last, ncalls, nalloc, brk>>

\* Line 50: let mut cache = self.0.borrow_mut(); held until get returns.
CopyCache_get_l50(t) ==
  /\ Running(t) /\ Top(t).obj = "CopyCache" /\ Top(t).pc = "l50"
  /\ IF ~CanBorrowMut(Cell(t))
       THEN Unwind(t, "already borrowed")
       ELSE /\ cells' = [cells EXCEPT !["CopyCache"][t].writer = TRUE]
            /\ stack' = ReplaceTop(t, [Top(t) EXCEPT !.pc = "l51"])
            /\ UNCHANGED <<heap, refs, computed, firstOut, offered, last, ncalls, nalloc, brk>>

\* Mutant: the write view is released before compute runs (check, then insert).
CopyCache_get_l51_release(t) ==
  /\ Running(t) /\ Top(t).obj = "CopyCache" /\ Top(t).pc = "l51"
  /\ cells' = [cells EXCEPT !["CopyCache"][t].writer = FALSE]
  /\ IF contains_key(Cell(t).map, Top(t).key)
       THEN /\ stack' = Pop(t)
            /\ last' = [last EXCEPT ![t] = Event("ret", t, Top(t), None, Cell(t).map[Top(t).key], "none")]
            /\ offered' = [offered EXCEPT !["CopyCache"][t][Top(t).key] = Apply(Top(t).fn, Top(t).key)]
            /\ UNCHANGED <<heap, refs, computed, firstOut, ncalls, nalloc, brk>>
       ELSE /\ stack' = ReplaceTop(t, [Top(t) EXCEPT !.pc = "l53", !.invoked = TRUE])
            /\ computed' = [computed EXCEPT !["CopyCache"][t][Top(t).key] = @ + 1]
            /\ UNCHANGED <<heap, refs, firstOut, offered, last, ncalls, nalloc, brk>>

\* Lines 51-53, entry(key): an occupied entry is copied out and get returns;
\* a vacant one makes or_insert_with call compute.
CopyCache_get_l51(t) ==
  /\ Running(t) /\ Top(t).obj = "CopyCache" /\ Top(t).pc = "l51"
  /\ IF contains_key(Cell(t).map, Top(t).key)
       THEN /\ stack' = Pop(t)
            /\ cells' = [cells EXCEPT !["CopyCache"][t].writer = FALSE]
            /\ last' = [last EXCEPT ![t] = Event("ret", t, Top(t), None, Cell(t).map[Top(t).key], "none")]
            /\ offered' = [offered EXCEPT !["CopyCache"][t][Top(t).key] = Apply(Top(t).fn, Top(t).key)]
            /\ UNCHANGED <<heap, refs, computed, firstOut, ncalls, nalloc, brk>>
       ELSE /\ stack' = ReplaceTop(t, [Top(t) EXCEPT !.pc = "l53", !.invoked = TRUE])
            /\ computed' = [computed EXCEPT !["CopyCache"][t][Top(t).key] = @ + 1]
            /\ UNCHANGED <<cells, heap, refs, firstOut, offered, last, ncalls, nalloc, brk>>

\* Line 53: compute(key) returns, or_insert_with stores the value, the copy
\* is returned and the RefMut is dropped.
CopyCache_get_l53(t) ==
  /\ Running(t) /\ Top(t).obj = "CopyCache" /\ Top(t).pc = "l53"
  /\ LET fr == Top(t)
         m == or_insert_with(Cell(t).map, fr.key, Apply(fr.fn, fr.key))
     IN /\ cells' = [cells EXCEPT !["CopyCache"][t] = [@ EXCEPT !.map = m, !.writer = FALSE]]
        /\ stack' = Pop(t)
        /\ last' = [last EXCEPT ![t] = Event("ret", t, fr, None, m[fr.key], "none")]
        /\ firstOut' = IF firstOut["CopyCache"][t][fr.key] = None
                         THEN [firstOut EXCEPT !["CopyCache"][t][fr.key] = Apply(fr.fn, fr.key)]
                         ELSE firstOut
        /\ offered' = [offered EXCEPT !["CopyCache"][t][fr.key] = Apply(fr.fn, fr.key)]
        /\ UNCHANGED <<heap, refs, computed, ncalls, nalloc, brk>>

\* ------------------------------------------------- borrowck_facts.rs
\* mir_borrowck (the override, lines 28-51): the body with facts f of def_id k
\* comes from rustc_borrowck; MIR_BODIES.with(|cache| cache.get(def_id, |_| f))
\* stores it in the calling thread's cache and the reference is discarded.
Populate(t, k, f) == NewFrame(t, "populate", "MIR_BODIES", k, f)

mir_borrowck(t, k, f) ==
  /\ ncalls < MaxQueries
  /\ Idle(t)
  /\ stack' = [stack EXCEPT ![t] = Append(@, Populate(t, k, f))]
  /\ ncalls' = ncalls + 1
  /\ last' = [last EXCEPT ![t] = Event("call", t, Populate(t, k, f), None, None, "none")]
  /\ UNCHANGED <<cells, heap, refs, computed, firstOut, offered, nalloc, brk>>

\* get_body_with_borrowck_facts(tcx, def_id) is called and runs line 69,
\* let _ = tcx.mir_borrowck(def_id): the query runs the override on this
\* thread when override_queries was registered and the query is not yet
\* memoized; otherwise nothing is stored.
Retrieve(t, k) == [NewFrame(t, "retrieve", "MIR_BODIES", k, PanicFn) EXCEPT !.pc = "l70"]

get_body_with_borrowck_facts(t, k) ==
  /\ ncalls < MaxQueries
  /\ Idle(t)
  /\ ncalls' = ncalls + 1
  /\ \/ \E f \in Fns :
          /\ stack' = [stack EXCEPT ![t] = <<Retrieve(t, k), Populate(t, k, f)>>]
          /\ last' = [last EXCEPT ![t] = Event("call", t, Populate(t, k, f), None, None, "none")]
     \/ /\ stack' = [stack EXCEPT ![t] = <<Retrieve(t, k)>>]
        /\ last' = [last EXCEPT ![t] = Event("call", t, Retrieve(t, k), None, None, "none")]
  /\ UNCHANGED <<cells, heap, refs, computed, firstOut, offered, nalloc, brk>>

\* Mutant: a missing body is silently computed instead of panicking.
get_body_with_borrowck_facts_l70_default(t) ==
  /\ Running(t) /\ Top(t).op = "retrieve" /\ Top(t).pc = "l70"
  /\ stack' = ReplaceTop(t, [NewFrame(t, "retrieve", "MIR_BODIES", Top(t).key, NumFns)
                              EXCEPT !.cap = Top(t).key])
  /\ UNCHANGED <<cells, heap, refs, computed, firstOut, offered, last, ncalls, nalloc, brk>>

\* Lines 70-71: MIR_BODIES.with(|cache| cache.get(def_id, |_| panic!(...))).
\* The closure captures def_id for its message.
get_body_with_borrowck_facts_l70(t) ==
  /\ Running(t) /\ Top(t).op = "retrieve" /\ Top(t).pc = "l70"
  /\ stack' = ReplaceTop(t, [NewFrame(t, "retrieve", "MIR_BODIES", Top(t).key, PanicFn)
                              EXCEPT !.cap = Top(t).key])
  /\ UNCHANGED <<cells, heap, refs, computed, firstOut, offered, last, ncalls, nalloc, brk>>

\* ------------------------------------------------------------ side by side
\* The same sequence of get(key, compute) calls, with computes that do not
\* call back, made on a Cache and on a CopyCache (as test_cached does on a
\* Cache): every call is made first on the Cache, owned by run 1, and, once
\* it has returned, with the same key and compute on the CopyCache, owned
\* by run 2.
SideBySide_Cache(k, f) ==
  /\ ncalls < 2 * MaxPairs /\ ncalls % 2 = 0
  /\ Idle(1) /\ Idle(2)
  /\ stack' = [stack EXCEPT ![1] = Append(@, NewFrame(1, "get", "Cache", k, f))]
  /\ ncalls' = ncalls + 1
  /\ last' = [last EXCEPT ![1] = Event("call", 1, NewFrame(1, "get", "Cache", k, f), None, None, "none")]
  /\ UNCHANGED <<cells, heap, refs, computed, firstOut, offered, nalloc, brk>>

SideBySide_CopyCache ==
  /\ ncalls % 2 = 1
  /\ Idle(1) /\ Idle(2) /\ last[1].kind = "ret"
  /\ LET fr == NewFrame(2, "get", "CopyCache", last[1].key, last[1].fn)
     IN /\ stack' = [stack EXCEPT ![2] = Append(@, fr)]
        /\ last' = [last EXCEPT ![2] = Event("call", 2, fr, None, None, "none")]
  /\ ncalls' = ncalls + 1
  /\ UNCHANGED <<cells, heap, refs, computed, firstOut, offered, nalloc, brk>>

\* ------------------------------------------------------------ specification
Next ==
  \/ \E k \in Keys, f \in Fns : Cache_get_call(1, k, f)
  \/ Cache_get_l17(1)
  \/ Cache_get_l18(1)
  \/ Cache_get_l22(1)
  \/ \E k \in Keys, f \in Fns : CopyCache_get_call(1, k, f)
  \/ CopyCache_get_l50(1)
  \/ CopyCache_get_l51(1)
  \/ CopyCache_get_l53(1)

Spec == Init /\ [][Next]_vars

NextEq ==
  \/ \E k \in Keys, f \in Fns : SideBySide_Cache(k, f)
  \/ SideBySide_CopyCache
  \/ Cache_get_l17(1)
  \/ Cache_get_l18(1)
  \/ Cache_get_l22(1)
  \/ CopyCache_get_l50(2)
  \/ CopyCache_get_l51(2)
  \/ CopyCache_get_l53(2)

SpecEq == Init /\ [][NextEq]_vars

\* A thread that is inside a get keeps executing: the statement the innermost
\* call is at is eventually executed, and a compute closure that terminates
\* eventually returns (line 18 / line 53), unless it first calls get again.
SpecLive ==
  /\ Spec
  /\ WF_vars(Cache_get_l17(1)) /\ WF_vars(Cache_get_l18(1)) /\ WF_vars(Cache_get_l22(1))
  /\ WF_vars(CopyCache_get_l50(1)) /\ WF_vars(CopyCache_get_l51(1))
  /\ WF_vars(CopyCache_get_l53(1))

\* The thread-local pattern: every thread calls mir_borrowck and
\* get_body_with_borrowck_facts on its own MIR_BODIES.
NextTL ==
  \E t \in Threads :
    \/ \E k \in Keys, f \in Fns : mir_borrowck(t, k, f)
    \/ \E k \in Keys : get_body_with_borrowck_facts(t, k)
    \/ get_body_with_borrowck_facts_l70(t)
    \/ Cache_get_l17(t)
    \/ Cache_get_l18(t)
    \/ Cache_get_l22(t)

SpecTL == Init /\ [][NextTL]_vars

\* ------------------------------------------------------------------ claims
Frames(t) == {stack[t][i] : i \in 1..Len(stack[t])}
CacheRefs == {r \in refs : r.obj = "Cache"}
\* The last event of thread t is the return of a get on instance obj.
Returned(t, obj) == last[t].kind = "ret" /\ last[t].obj = obj

\* C1 (first writer wins): a Cache::get(K, g) issued after some get(K, f) has
\* run f and returned reads f(K) through the reference it returns.
C1_FirstWriterWins ==
  \A t \in Threads :
    (Returned(t, "Cache") /\ last[t].exp # None) => last[t].val = last[t].exp

\* C2 (reference identity): any two references returned by Cache::get for the
\* same key of one instance point to the same slot: same address, same box.
C2_ReferenceIdentity ==
  \A r1 \in CacheRefs, r2 \in CacheRefs :
    (r1.t = r2.t /\ r1.key = r2.key) => (r1.addr = r2.addr /\ r1.id = r2.id)

\* C3 (reference validity): every reference returned by Cache::get points to
\* a box the cache still owns under that key, at the same address, not freed
\* and not replaced.
C3_ReferenceValidity ==
  \A r \in CacheRefs :
    /\ cells["Cache"][r.t].map[r.key] = r.addr
    /\ heap[r.t][r.addr].id = r.id

\* C4 (compute count): for every key of a cache the compute closures are
\* invoked at most once in total, and exactly once when a get for the key
\* has returned.
C4_ComputeCount ==
  \A o \in {"Cache", "CopyCache"}, t \in Threads :
    /\ \A k \in Keys : computed[o][t][k] <= 1
    /\ Returned(t, o) => computed[o][t][last[t].key] = 1

\* C5 (monotonicity): no step removes or overwrites the entry of a key that
\* is present: the entry and the box it points to stay as they are.
C5_Monotonic ==
  [][\A o \in {"Cache", "CopyCache"}, t \in Threads, k \in Keys :
       cells[o][t].map[k] # None
         => /\ cells'[o][t].map[k] = cells[o][t].map[k]
            /\ (o = "Cache" => heap'[t][cells[o][t].map[k]] = heap[t][cells[o][t].map[k]])]_vars

\* C6 (re-entrancy fault): a Cache::get(K, ...) called from the compute of a
\* get(K, ...) of the same instance faults at its first access to the cell:
\* it never gets past line 17 and never returns a reference.
C6_ReentrantFaults ==
  \A t \in Threads :
    /\ \A fr \in Frames(t) : (fr.obj = "Cache" /\ fr.reent) => fr.pc = "l17"
    /\ ~(Returned(t, "Cache") /\ last[t].reent)

\* C7 (non-invalidation by other keys): while a Cache::get(K2, ...) runs, and
\* when it is about to return, every key K1 # K2 that was present when it
\* was called still has the same entry, at the same address, in the same box
\* with the same value, so a reference to it reads what it read before.
C7_NonInvalidation ==
  \A t \in Threads : \A fr \in Frames(t) :
    fr.obj = "Cache" =>
      \A k1 \in Keys \ {fr.key} :
        fr.snap[k1].entry # None => Snapshot("Cache", t)[k1] = fr.snap[k1]

\* A get(K2, ...) has inserted K2 and is about to return while a reference to
\* another key K1, present before the call, is held.
C7_Witness ==
  \E t \in Threads : \E fr \in Frames(t) :
    /\ fr.obj = "Cache" /\ fr.pc = "l22" /\ fr.invoked
    /\ \E r \in CacheRefs :
         /\ r.t = t /\ r.key # fr.key
         /\ fr.snap[r.key].entry = r.addr /\ fr.snap[r.key].box.id = r.id

RetrieveGet(fr) == fr.op = "retrieve" /\ fr.pc # "l70"

\* C8 (retrieve before populate): a retrieve of a key that is absent from the
\* thread's MIR_BODIES never reaches the insert and never returns a
\* reference; it faults with the panic message naming the key, and nothing
\* is stored under the key.
C8_RetrieveBeforePopulate ==
  \A t \in Threads :
    /\ \A fr \in Frames(t) :
         (RetrieveGet(fr) /\ fr.snap[fr.key].entry = None)
           => fr.pc \in {"l17", "l18"}
    /\ (last[t].kind = "ret" /\ last[t].op = "retrieve")
         => /\ last[t].exp # None
            /\ last[t].present
            /\ ~last[t].invoked
    /\ (last[t].kind = "fault" /\ last[t].op = "retrieve")
         => /\ last[t].msg = PanicMsg
            /\ last[t].msgkey = last[t].key
            /\ ~last[t].present
            /\ cells["MIR_BODIES"][t].map[last[t].key] = None

\* A retrieve of a never-populated key has just faulted.
C8_Witness ==
  \E t \in Threads :
    /\ last[t].kind = "fault" /\ last[t].op = "retrieve" /\ last[t].msg = PanicMsg
    /\ last[t].exp = None /\ last[t].msgkey \in Keys

\* C9 (populate then retrieve): once a populate of K has completed on a
\* thread, its artifact stays stored under K whatever later populates
\* supply, and a retrieve of K issued afterwards does not fault and returns
\* a reference to that artifact.
C9_PopulateThenRetrieve ==
  \A t \in Threads :
    /\ \A k \in Keys :
         firstOut["MIR_BODIES"][t][k] # None
           => /\ cells["MIR_BODIES"][t].map[k] # None
              /\ heap[t][cells["MIR_BODIES"][t].map[k]].val = firstOut["MIR_BODIES"][t][k]
    /\ (last[t].kind = "ret" /\ last[t].op = "retrieve")
         => /\ last[t].exp # None /\ last[t].val = last[t].exp
            /\ last[t].addr = cells["MIR_BODIES"][t].map[last[t].key]
    /\ (last[t].kind = "fault" /\ last[t].op = "retrieve") => last[t].exp = None

\* A retrieve has returned the first artifact after a second populate of the
\* same key with a different artifact had returned.
C9_Witness ==
  \E t \in Threads :
    /\ last[t].kind = "ret" /\ last[t].op = "retrieve"
    /\ offered["MIR_BODIES"][t][last[t].key] \notin {None, last[t].val}

\* C10 (Value Cache contract): a CopyCache::get(K, f) that finds K absent
\* invokes f, stores f(K) and returns it; one that finds K present returns
\* the value stored first without invoking its compute; the map holds
\* exactly the values computed first; and the write view is held from the
\* presence check until the insert.
C10_ValueCache ==
  \A t \in Threads :
    /\ Returned(t, "CopyCache")
         => IF last[t].exp = None
              THEN last[t].invoked /\ last[t].val = Apply(last[t].fn, last[t].key)
              ELSE ~last[t].invoked /\ last[t].val = last[t].exp
    /\ \A k \in Keys : cells["CopyCache"][t].map[k] = firstOut["CopyCache"][t][k]
    /\ \A fr \in Frames(t) :
         (fr.obj = "CopyCache" /\ fr.pc \in {"l51", "l53"}) => cells["CopyCache"][t].writer

\* A later get(K, g) with a different g has returned the value of the first.
C10_Witness ==
  \E t \in Threads :
    /\ Returned(t, "CopyCache")
    /\ last[t].exp # None /\ Apply(last[t].fn, last[t].key) # last[t].exp

\* C11 (thread confinement): a key is present in a thread's MIR_BODIES only
\* if a populate of that key ran on that same thread; a retrieve returns
\* only if a populate of its key had completed on its own thread, and faults
\* otherwise, whatever the other threads have populated.
C11_ThreadConfinement ==
  \A t \in Threads :
    /\ \A k \in Keys :
         cells["MIR_BODIES"][t].map[k] # None
           => \/ firstOut["MIR_BODIES"][t][k] # None
              \/ \E fr \in Frames(t) : fr.op = "populate" /\ fr.key = k /\ fr.pc = "l22"
    /\ \A fr \in Frames(t) :
         (RetrieveGet(fr) /\ firstOut["MIR_BODIES"][t][fr.key] = None)
           => fr.pc \in {"l17", "l18"}
    /\ (last[t].kind = "ret" /\ last[t].op = "retrieve")
         => firstOut["MIR_BODIES"][t][last[t].key] # None
    /\ (last[t].kind = "fault" /\ last[t].op = "retrieve")
         => firstOut["MIR_BODIES"][t][last[t].key] = None

\* A retrieve of K has faulted on one thread although a populate of K has
\* completed on another thread, whose cache holds K.
C11_Witness ==
  \E t1 \in Threads : \E t2 \in Threads \ {t1} :
    /\ last[t2].kind = "fault" /\ last[t2].op = "retrieve"
    /\ firstOut["MIR_BODIES"][t1][last[t2].key] # None
    /\ cells["MIR_BODIES"][t1].map[last[t2].key] # None
    /\ cells["MIR_BODIES"][t2].map[last[t2].key] = None

\* C12 (hit path): a Cache::get(K, compute) called with K present only runs
\* the presence check (line 17) and the final lookup (lines 22-29): compute
\* is not invoked, the insert with its write view is never reached, no step
\* of the call changes the map or the boxes, and the reference it returns
\* points to the box K had when the call was made.
C12_HitPath ==
  [][\A t \in Threads :
       (/\ Running(t) /\ Top(t).obj = "Cache"
        /\ Top(t).snap[Top(t).key].entry # None
        /\ stack'[t] # stack[t])
         => /\ Top(t).pc \in {"l17", "l22"}
            /\ ~Top(t).invoked
            /\ Snapshot("Cache", t) = Top(t).snap
            /\ cells' = cells /\ heap' = heap /\ computed' = computed
            /\ ~cells'["Cache"][t].writer
            /\ Top(t).pc = "l17"
                 => stack'[t] = [stack[t] EXCEPT ![Len(stack[t])].pc = "l22"]
            /\ Top(t).pc = "l22"
                 => /\ stack'[t] = SubSeq(stack[t], 1, Len(stack[t]) - 1)
                    /\ last'[t].kind = "ret"
                    /\ ~last'[t].invoked
                    /\ last'[t].addr = Top(t).snap[Top(t).key].entry
                    /\ last'[t].id = Top(t).snap[Top(t).key].box.id
                    /\ last'[t].val = Top(t).snap[Top(t).key].box.val]_vars

\* A get(K, g) called with K present has returned, and g(K) is not the
\* value it returned.
C12_Witness ==
  \E t \in Threads :
    /\ Returned(t, "Cache") /\ last[t].present /\ ~last[t].invoked
    /\ last[t].val # Apply(last[t].fn, last[t].key)
    /\ cells["Cache"][t].map[last[t].key] = last[t].addr

\* C13 (Value Cache re-entrancy): a CopyCache::get called from the compute
\* of a CopyCache::get on the same instance, for the same or another key,
\* faults at its borrow_mut (line 50) with "already borrowed"; the panic
\* unwinds the outer call too, and the map is then what it was before the
\* outermost call: neither key has been inserted.
C13_CopyCacheReentrancy ==
  [][\A t \in Threads :
       (/\ Running(t) /\ Top(t).obj = "CopyCache" /\ Len(stack[t]) >= 2
        /\ stack'[t] # stack[t])
         => /\ Top(t).pc = "l50"
            /\ stack'[t] = <<>>
            /\ last'[t].kind = "fault" /\ last'[t].msg = "already borrowed"
            /\ last'[t].key = Top(t).key /\ last'[t].depth = Len(stack[t])
            /\ \A k \in Keys :
                 cells'["CopyCache"][t].map[k] = stack[t][1].snap[k].entry
            /\ cells'["CopyCache"][t].map[stack[t][1].key] = None]_vars

\* A nested get for another key than the one being computed has faulted.
C13_Witness ==
  \E t \in Threads :
    /\ Idle(t) /\ last[t].kind = "fault" /\ last[t].obj = "CopyCache"
    /\ last[t].depth = 2 /\ ~last[t].reent /\ last[t].msg = "already borrowed"
    /\ cells["CopyCache"][t].map[last[t].key] = None

\* The calls of thread t that hold a write view on instance o.
Writers(o, t) == {i \in 1..Len(stack[t]) : stack[t][i].obj = o /\ HoldsMut(stack[t][i])}

\* C14 (cell exclusivity): in every state, nested calls included, at most
\* one call holds a write view on a cell, the cell's flag says so exactly
\* then, and no read view is active together with it.
C14_CellExclusivity ==
  \A o \in Objs, t \in Threads :
    /\ Cardinality(Writers(o, t)) <= 1
    /\ cells[o][t].writer <=> Writers(o, t) # {}
    /\ cells[o][t].writer => cells[o][t].readers = 0
    /\ cells[o][t].readers > 0 => ~cells[o][t].writer

\* A nested get is about to ask for a view while the outer call, inside its
\* compute, holds the write view.
C14_Witness ==
  \E t \in Threads :
    /\ Len(stack[t]) = 2 /\ Top(t).obj = "CopyCache" /\ Top(t).pc = "l50"
    /\ cells["CopyCache"][t].writer /\ Writers("CopyCache", t) = {1}

\* C15 (no blocking): whenever get calls are in progress, on either cache
\* and at any nesting depth, all of them eventually terminate, by returning
\* or by a panic that unwinds them: no call waits for a view.
C15_NoBlocking == \A t \in Threads : Running(t) ~> Idle(t)

\* Every call the callers could issue has been issued and has terminated,
\* the last one by a fault raised inside a nested call.
C15_Witness ==
  /\ ncalls = MaxCalls /\ \A t \in Threads : Idle(t)
  /\ last[1].kind = "fault" /\ last[1].depth >= 2

\* The innermost call of thread t is a Cache::get(K, f) whose compute has
\* run and whose insert is done (it is about to return), and the last thing
\* its compute did on the cache was a nested get(K2, g), K2 # K, that
\* returned.
AfterNestedOtherKey(t) ==
  /\ Running(t) /\ Top(t).obj = "Cache" /\ Top(t).pc = "l22" /\ Top(t).invoked
  /\ Returned(t, "Cache") /\ last[t].depth = Len(stack[t]) + 1
  /\ last[t].key # Top(t).key

\* A step of a get nested in the compute of a get for another key.
NestedOtherKeyStep(t) ==
  /\ Len(stack[t]) >= 2 /\ Top(t).obj = "Cache"
  /\ Top(t).key # stack[t][Len(stack[t]) - 1].key
  /\ stack'[t] # stack[t]

\* The value the Cache of thread t holds for key k after the step.
HeldAfter(t, k) == heap'[t][cells'["Cache"][t].map[k]].val

\* C16 as stated (nested get on a different key): the nested get(K2, g)
\* does not fault, and when the outer get(K, f) returns, K holds f(K) and K2
\* holds g(K2).
C16_NestedOtherKey ==
  [][\A t \in Threads :
       /\ NestedOtherKeyStep(t) => last'[t].kind # "fault"
       /\ (AfterNestedOtherKey(t) /\ stack'[t] # stack[t])
            => /\ last'[t].kind = "ret" /\ last'[t].val = Apply(Top(t).fn, Top(t).key)
               /\ cells'["Cache"][t].map[Top(t).key] # None
               /\ HeldAfter(t, Top(t).key) = Apply(Top(t).fn, Top(t).key)
               /\ cells'["Cache"][t].map[last[t].key] # None
               /\ HeldAfter(t, last[t].key) = Apply(last[t].fn, last[t].key)]_vars

\* C16 as amended: K2 holds g(K2) when K2 was absent at the nested call, and
\* in any case the value the nested get returned.
C16_NestedOtherKeyAmended ==
  [][\A t \in Threads :
       /\ NestedOtherKeyStep(t) => last'[t].kind # "fault"
       /\ (AfterNestedOtherKey(t) /\ stack'[t] # stack[t])
            => /\ last'[t].kind = "ret" /\ last'[t].val = Apply(Top(t).fn, Top(t).key)
               /\ cells'["Cache"][t].map[Top(t).key] # None
               /\ HeldAfter(t, Top(t).key) = Apply(Top(t).fn, Top(t).key)
               /\ cells'["Cache"][t].map[last[t].key] # None
               /\ HeldAfter(t, last[t].key) = last[t].val
               /\ ~last[t].present
                    => HeldAfter(t, last[t].key) = Apply(last[t].fn, last[t].key)]_vars

\* The outer get(K, f) is about to return after its compute made a nested
\* get(K2, g) for an absent K2 # K, and both boxes are in the cache.
C16_Witness ==
  \E t \in Threads :
    /\ AfterNestedOtherKey(t) /\ ~last[t].present /\ last[t].invoked
    /\ cells["Cache"][t].map[Top(t).key] # None
    /\ cells["Cache"][t].map[last[t].key] = last[t].addr

\* The compute of the innermost call of thread t, a get on MIR_BODIES, is
\* the panicking closure and is about to run.
ComputeFaults(t) ==
  /\ Running(t) /\ Top(t).obj = "MIR_BODIES" /\ Top(t).pc = "l18"
  /\ Top(t).fn = PanicFn

\* C17 (a fault leaves the cache unchanged and usable): when the compute of
\* a get(K, compute) on MIR_BODIES panics, nothing is stored under K, the
\* map and the boxes are what they were when the call was made, and no view
\* stays held; populates never fault, and a retrieve of K that returns after
\* a faulted retrieve of K returns the artifact of the first populate of K
\* that followed.
C17_FaultLeavesCacheUsable ==
  [][\A t \in Threads :
       /\ (ComputeFaults(t) /\ stack'[t] # stack[t])
            => /\ last'[t].kind = "fault" /\ stack'[t] = <<>>
               /\ cells'["MIR_BODIES"][t].map[Top(t).key] = None
               /\ \A k \in Keys :
                    cells'["MIR_BODIES"][t].map[k] = Top(t).snap[k].entry
               /\ heap'[t] = heap[t]
               /\ \A k \in Keys :
                    Top(t).snap[k].entry # None
                      => heap'[t][Top(t).snap[k].entry] = Top(t).snap[k].box
               /\ CanBorrowMut(cells'["MIR_BODIES"][t])
       /\ last'[t].op = "populate" => last'[t].kind # "fault"
       /\ (/\ last'[t].kind = "ret" /\ last'[t].op = "retrieve"
           /\ computed'["MIR_BODIES"][t][last'[t].key] >= 2)
            => /\ firstOut'["MIR_BODIES"][t][last'[t].key] # None
               /\ last'[t].val = firstOut'["MIR_BODIES"][t][last'[t].key]]_vars

\* A retrieve of K has returned the populated artifact on a thread where an
\* earlier retrieve of K had faulted.
C17_Witness ==
  \E t \in Threads :
    /\ last[t].kind = "ret" /\ last[t].op = "retrieve"
    /\ computed["MIR_BODIES"][t][last[t].key] >= 2
    /\ last[t].val = offered["MIR_BODIES"][t][last[t].key]

\* Both runs have completed the same number of calls.
InStep == ncalls % 2 = 0 /\ Idle(1) /\ Idle(2)

\* C18 (Cache and CopyCache agree): after every call made on both caches,
\* the value read through the reference the Cache returned equals the value
\* the CopyCache returned, and both hold the same keys with the same values.
C18_CachesAgree ==
  InStep =>
    /\ ncalls > 0
         => /\ Returned(1, "Cache") /\ Returned(2, "CopyCache")
            /\ last[1].key = last[2].key /\ last[1].fn = last[2].fn
            /\ last[1].val = last[2].val
            /\ last[1].val = heap[1][last[1].addr].val
    /\ \A k \in Keys :
         IF cells["Cache"][1].map[k] = None
           THEN cells["CopyCache"][2].map[k] = None
           ELSE heap[1][cells["Cache"][1].map[k]].val = cells["CopyCache"][2].map[k]

\* Both caches have answered a get(K, g) for a present K with the value of
\* an earlier compute, and hold more than one key.
C18_Witness ==
  /\ InStep /\ ncalls = 2 * MaxPairs
  /\ last[2].val # Apply(last[2].fn, last[2].key)
  /\ \A k \in Keys : cells["CopyCache"][2].map[k] # None

\* C19 (the final lookup never fails): whenever a Cache::get, at any
\* nesting depth and in any sequence of calls, is at the lookup of lines
\* 22-24, its key is in the map, bound to a live box, and the read view can
\* be taken; no get has ever failed at the unwrap or at a borrow.
C19_FinalLookup ==
  \A t \in Threads :
    /\ \A fr \in Frames(t) :
         (fr.obj = "Cache" /\ fr.pc = "l22")
           => /\ CanBorrow(cells["Cache"][t])
              /\ contains_key(cells["Cache"][t].map, fr.key)
              /\ heap[t][cells["Cache"][t].map[fr.key]] # NoBox
    /\ (last[t].obj = "Cache") => last[t].kind # "fault"

\* A get(K, ...) nested in the compute of another get(K, ...) is at its
\* final lookup, having just inserted K.
C19_Witness ==
  \E t \in Threads :
    /\ Len(stack[t]) = 2 /\ Top(t).obj = "Cache" /\ Top(t).pc = "l22"
    /\ Top(t).invoked /\ Top(t).reent
    /\ contains_key(cells["Cache"][t].map, Top(t).key)

====
